---- MODULE Spec2Model ----
(***************************************************************************)
(* Model of the conversational engagement and virtual-economy engine of    *)
(* drinking-buddy-bot: the inbound message handler, the free-drink quota   *)
(* ledger, the gift payment handlers and the two re-engagement timers.     *)
(*                                                                         *)
(* Time is counted in units of 15 minutes.  A handler is a coroutine: it   *)
(* runs atomically between two awaits, so every action below is "finish    *)
(* the awaited I/O, then run the synchronous code up to the next await".   *)
(* Every call to the store, the language model or the chat adapter has a   *)
(* nondeterministic outcome (it succeeds or it raises).                    *)
(***************************************************************************)
EXTENDS Integers, Sequences, FiniteSets, Bags, TLC

\* ------------------------------------------------------------------------
\* Bounds of the model
\* ------------------------------------------------------------------------
MaxInbound == 2
MaxPayments == 2
MaxNow == 99
MaxTimerInbound == 1
MaxQuickTicks == 2
MaxAutoTicks == 2
MaxRequests == 3

Users == {1, 2}
Handlers == {1, 2}
ChargeIds == {1}

\* ------------------------------------------------------------------------
\* Program constants (time in units of 15 minutes)
\* ------------------------------------------------------------------------
QUOTA_MAX == 5
DAY == 96
HOUR == 4
QUICK_IDLE == 1
NoTime == -1

\* ------------------------------------------------------------------------
\* State
\* ------------------------------------------------------------------------
VARIABLES
    now,                \* wall clock, NOW()
    users,              \* table users, keyed by user_tg_id
    messages,           \* table messages, in insertion order
    katya_free_drinks,  \* table katya_free_drinks, keyed by chat_id
    outbox,             \* the calls the chat adapter accepted (a bag)
    hs,                 \* the running handle_user_message coroutines
    nextMid,            \* number of inbound text messages delivered so far
    pay,                \* the running handle_successful_payment coroutines
    payCount,           \* number of confirmed-payment deliveries so far
    preCheckout,        \* answers given by pre_checkout_query
    quick,              \* the coroutine of send_quick_messages
    auto,               \* the coroutine of send_auto_messages
    user_drinks,        \* table user_drinks (the reported drinks)
    web                 \* the web application: tapp, and the answers given

vars == <<now, users, messages, katya_free_drinks, outbox, hs, nextMid,
          pay, payCount, preCheckout, quick, auto, user_drinks, web>>

\* the chat of a private conversation is the user's own id
ChatOf(u) == u

\* ------------------------------------------------------------------------
\* Inputs
\* ------------------------------------------------------------------------
\* inbound texts: one with a stats keyword, one without
Texts == {"statistika", "plain"}

\* what the language model can answer on the default branch: the set of
\* keyword families found in the text of the answer
AnswerTexts == {"neutral", "toast", "vodka", "wine", "whisky", "sad", "happy",
                "wine_happy"}

\* the string llm_reply returns when the client is missing or the call raises
LLM_FALLBACK == "llm_fallback"

KeywordsIn(answer) ==
    CASE answer = "toast"      -> {"toast"}
      [] answer = "vodka"      -> {"vodka"}
      [] answer = "wine"       -> {"wine"}
      [] answer = "whisky"     -> {"whisky"}
      [] answer = "sad"        -> {"sad"}
      [] answer = "happy"      -> {"happy"}
      [] answer = "wine_happy" -> {"wine", "happy"}
      [] OTHER                 -> {}

NoCommand == ""

\* message_handlers.py, lines 185-197: the if/elif chain over the answer
StickerCommandFor(answer) ==
    LET f == KeywordsIn(answer) IN
    IF "toast" \in f THEN "[SEND_DRINK_BEER]"
    ELSE IF "vodka" \in f THEN "[SEND_DRINK_VODKA]"
    ELSE IF "wine" \in f THEN "[SEND_DRINK_WINE]"
    ELSE IF "whisky" \in f THEN "[SEND_DRINK_WHISKEY]"
    ELSE IF "sad" \in f THEN "[SEND_SAD_STICKER]"
    ELSE IF "happy" \in f THEN "[SEND_HAPPY_STICKER]"
    ELSE NoCommand

\* katya_utils.py, command_mapping and the keys of STICKERS
command_mapping ==
    {"[SEND_DRINK_VODKA]", "[SEND_DRINK_WHISKY]", "[SEND_DRINK_WINE]",
     "[SEND_DRINK_BEER]", "[SEND_KATYA_HAPPY]", "[SEND_KATYA_SAD]",
     "[SEND_SAD_STICKER]", "[SEND_HAPPY_STICKER]"}

STICKERS ==
    {"KATYA_HAPPY", "KATYA_SAD", "DRINK_VODKA", "DRINK_WHISKY", "DRINK_WINE",
     "DRINK_BEER"}

\* send_sticker_by_command: does the command lead to a bot.send_sticker call
HasSticker(command) == command \in command_mapping \/ command \in STICKERS

\* ------------------------------------------------------------------------
\* The store
\* ------------------------------------------------------------------------
\* the values of users.first_name and users.gender; NoName and NoGender are
\* NULL (and what a SELECT on a missing row gives the caller)
NoName == "no_name"
NoGender == "no_gender"
FIRST_NAME == "name"
OTHER_NAME == "other_name"
Names == {FIRST_NAME, OTHER_NAME}
DetectedGenders == {"male", "female", "neutral"}

\* users.age and users.preferences are NULL until a message sets them
NoAge == 0
NoPreferences == <<>>

NoUserRow ==
    [present |-> FALSE, quick_message_sent |-> FALSE,
     last_quick_message |-> NoTime, last_auto_message |-> NoTime,
     last_stats_reminder |-> NoTime, first_name |-> NoName,
     gender |-> NoGender, limit_warning_sent |-> NoTime,
     last_drink_report |-> NoTime, age |-> NoAge,
     preferences |-> NoPreferences]

UserRow(reminder) ==
    [present |-> TRUE, quick_message_sent |-> FALSE,
     last_quick_message |-> NoTime, last_auto_message |-> NoTime,
     last_stats_reminder |-> reminder, first_name |-> FIRST_NAME,
     gender |-> "male", limit_warning_sent |-> NoTime,
     last_drink_report |-> NoTime, age |-> NoAge,
     preferences |-> NoPreferences]

\* a row whose gender was never derived (users.gender is NULL)
NewUserRow == [UserRow(NoTime) EXCEPT !.gender = NoGender]

\* message_handlers.py line 129: is update_user_name_and_gender called
NameOrGenderStale(tbl, u, first_name) ==
    tbl[u].first_name # first_name \/ tbl[u].gender = NoGender

\* the gender is asked of the model at every update
DetectsGender_always(tbl, u) == tbl[u].gender \in {NoGender, "neutral", "male", "female"}

\* db_utils.py lines 73-74: is detect_gender_with_llm called by the update
DetectsGender(tbl, u) == tbl[u].gender \in {NoGender, "neutral"}

\* db_utils.py update_user_name_and_gender: the gender is asked of the model
\* when none or "neutral" is stored, then one UPDATE sets name and gender
\* (an UPDATE changes nothing when the user has no row)
update_user_name_and_gender(tbl, u, first_name, detected) ==
    IF tbl[u].present
    THEN [tbl EXCEPT ![u].first_name = first_name,
                     ![u].gender = IF DetectsGender(tbl, u) THEN detected
                                   ELSE tbl[u].gender]
    ELSE tbl

NoDrinksRow == [present |-> FALSE, drinks_count |-> 0, date_reset |-> NoTime]

DrinksRow(count, reset) ==
    [present |-> TRUE, drinks_count |-> count, date_reset |-> reset]

\* database.py save_message: one INSERT; mid is the inbound message the row
\* was written for (0 for the rows of timers and payments)
save_message(tbl, chat_id, user_tg_id, role, content, sticker_sent, mid) ==
    Append(tbl, [chat_id |-> chat_id, user_tg_id |-> user_tg_id, role |-> role,
                 content |-> content, sticker_sent |-> sticker_sent,
                 created_at |-> now, mid |-> mid])

\* database.py reset_quick_message_flag: UPDATE ... WHERE user_tg_id = :tg_id
reset_quick_message_flag(tbl, u) ==
    IF tbl[u].present
    THEN [tbl EXCEPT ![u].quick_message_sent = FALSE]
    ELSE tbl

\* stats_utils.py should_remind_about_stats
should_remind_about_stats(tbl, u, storeOk) ==
    IF ~storeOk THEN FALSE
    ELSE IF tbl[u].present /\ tbl[u].last_stats_reminder # NoTime
         THEN now - tbl[u].last_stats_reminder > DAY
         ELSE TRUE

\* stats_utils.py update_stats_reminder
update_stats_reminder(tbl, u) ==
    IF tbl[u].present
    THEN [tbl EXCEPT ![u].last_stats_reminder = now]
    ELSE tbl

\* the reset rule with "more than" in place of "at least" 24 hours
ResetDue_later(row) == row.date_reset # NoTime /\ now - row.date_reset > DAY

\* (now - date_reset).days >= 1
ResetDue(row) == row.date_reset # NoTime /\ now - row.date_reset >= DAY

\* can_katya_drink_free with the comparison written <= : the variant that
\* allows a sixth free drink
can_katya_drink_free_le(tbl, chat, storeOk) ==
    IF ~storeOk THEN TRUE
    ELSE IF tbl[chat].present
         THEN IF ResetDue(tbl[chat]) THEN TRUE
              ELSE tbl[chat].drinks_count <= QUOTA_MAX
         ELSE TRUE

\* katya_utils.py can_katya_drink_free: the value returned
can_katya_drink_free(tbl, chat, storeOk) ==
    IF ~storeOk THEN TRUE
    ELSE IF tbl[chat].present
         THEN IF ResetDue(tbl[chat]) THEN TRUE
              ELSE tbl[chat].drinks_count < QUOTA_MAX
         ELSE TRUE

\* katya_utils.py can_katya_drink_free: what it leaves in the table
can_katya_drink_free_store(tbl, chat, storeOk) ==
    IF ~storeOk THEN tbl
    ELSE IF tbl[chat].present
         THEN IF ResetDue(tbl[chat])
              THEN [tbl EXCEPT ![chat] = DrinksRow(0, now)]
              ELSE tbl
         ELSE [tbl EXCEPT ![chat] = DrinksRow(0, now)]

\* increment_katya_drinks that resets without counting the drink
increment_katya_drinks_zero(tbl, chat, storeOk) ==
    IF ~storeOk THEN tbl
    ELSE IF tbl[chat].present
         THEN IF now - tbl[chat].date_reset >= DAY
              THEN [tbl EXCEPT ![chat] = DrinksRow(0, now)]
              ELSE [tbl EXCEPT ![chat].drinks_count = @ + 1]
         ELSE [tbl EXCEPT ![chat] = DrinksRow(1, now)]

\* increment_katya_drinks writing the count it would have read before a
\* concurrent call wrote: the variant that loses an update
increment_katya_drinks_stale(tbl, chat, storeOk) ==
    IF ~storeOk THEN tbl
    ELSE [tbl EXCEPT ![chat] = DrinksRow(1, now)]

\* katya_utils.py increment_katya_drinks: one synchronous call, SELECT and
\* UPDATE/INSERT in one transaction with no await in between
increment_katya_drinks(tbl, chat, storeOk) ==
    IF ~storeOk THEN tbl
    ELSE IF tbl[chat].present
         THEN IF ResetDue(tbl[chat])
              THEN [tbl EXCEPT ![chat] = DrinksRow(1, now)]
              ELSE [tbl EXCEPT ![chat].drinks_count = @ + 1]
         ELSE [tbl EXCEPT ![chat] = DrinksRow(1, now)]

\* katya_utils.py update_katya_free_drinks
update_katya_free_drinks(tbl, chat, increment, storeOk) ==
    IF storeOk /\ tbl[chat].present
    THEN [tbl EXCEPT ![chat].drinks_count = @ + increment]
    ELSE tbl

\* ------------------------------------------------------------------------
\* The chat adapter
\* ------------------------------------------------------------------------
\* one accepted outbound call; src/ref name the event that caused it
Sent(chat, kind, content, src, ref) ==
    [chat_id |-> chat, kind |-> kind, content |-> content, src |-> src,
     ref |-> ref, idx |-> 0]

\* the idx-th message of a sequence of messages
SentNth(chat, kind, content, src, ref, idx) ==
    [chat_id |-> chat, kind |-> kind, content |-> content, src |-> src,
     ref |-> ref, idx |-> idx]

Deliver(box, ok, item) == IF ok THEN box (+) SetToBag({item}) ELSE box

\* ------------------------------------------------------------------------
\* handle_user_message (message_handlers.py, lines 109-229)
\* ------------------------------------------------------------------------
\* calls: the language-model calls made so far for the message in hand;
\* text: the inbound text (kept by msg_handler of app.py, which stores no
\* user turn)
\* ------------------------------------------------------------------------
\* Facts taken from the text of a message (message_handlers.py)
\* ------------------------------------------------------------------------
\* CURRENT_DATE
Today == now \div DAY

DrinkRow(u, amount, date, id) ==
    [user_tg_id |-> u, amount |-> amount, drink_date |-> date, id |-> id]

\* A text is read as its words; a run of digits standing alone is a number.
Word(w) == [w |-> w, n |-> NoTime]
Num(n) == [w |-> "", n |-> n]
IsNum(tok) == tok.w = ""

Words(text) ==
    CASE text = "mne 25 let"         -> <<Word("mne"), Num(25), Word("let")>>
      [] text = "mne 5 let"          -> <<Word("mne"), Num(5), Word("let")>>
      [] text = "mne 150 let"        -> <<Word("mne"), Num(150), Word("let")>>
      [] text = "vypil 25 gramm"     -> <<Word("vypil"), Num(25), Word("gramm")>>
      [] text = "vypil 500 ml vodki" -> <<Word("vypil"), Num(500), Word("ml"),
                                          Word("vodki")>>
      [] text = "vypil 2 piva"       -> <<Word("vypil"), Num(2), Word("piva")>>
      [] text = "lyublyu pivo"       -> <<Word("lyublyu"), Word("pivo")>>
      [] text = "lyublyu vino"       -> <<Word("lyublyu"), Word("vino")>>
      [] OTHER                       -> <<Word(text)>>

FactTexts == {"mne 25 let", "mne 5 let", "mne 150 let", "vypil 25 gramm",
              "vypil 500 ml vodki", "vypil 2 piva", "lyublyu pivo",
              "lyublyu vino"}

AGE_MIN == 10
AGE_MAX == 100

\* parse_age_from_text: the first number of the text that stands alone and
\* lies in 10..100; NoAge for None
parse_age_from_text(text) ==
    LET ws == Words(text)
        hits == {i \in 1..Len(ws) :
                    IsNum(ws[i]) /\ ws[i].n >= AGE_MIN /\ ws[i].n <= AGE_MAX} IN
    IF hits = {} THEN NoAge
    ELSE ws[CHOOSE i \in hits : \A j \in hits : i <= j].n

\* parse_drink_preferences: the keywords that occur in the text, in the
\* order of the keyword list
drink_keywords == <<"pivo", "vodka", "vino", "viski", "konyak", "shampanskoe",
                    "rom", "dzhin", "tekila">>

parse_drink_preferences(text) ==
    LET ws == Words(text)
        Found(k) == \E i \in 1..Len(ws) : ws[i].w = k IN
    SelectSeq(drink_keywords, Found)

\* the words that begin with one of the unit alternatives of the patterns
\* of parse_drink_info; the alternatives are not closed by a word boundary,
\* so "let" counts: it begins with the one-letter unit l
UnitWords == {"gramm", "ml", "let"}

NoDrinkInfo == NoTime

\* parse_drink_info of message_handlers.py: the number in front of the
\* first unit word, the reports after "vypil" first; NoDrinkInfo for None
mh_parse_drink_info(text) ==
    LET ws == Words(text)
        hits == {i \in 1..(Len(ws) - 1) :
                    IsNum(ws[i]) /\ ws[i + 1].w \in UnitWords}
        said == {i \in hits : i > 1 /\ ws[i - 1].w = "vypil"}
        first(S) == CHOOSE i \in S : \A j \in S : i <= j IN
    IF hits = {} THEN NoDrinkInfo
    ELSE IF said # {} THEN ws[first(said)].n
    ELSE ws[first(hits)].n

\* database.py update_user_age and update_user_preferences: one UPDATE each
update_user_age(tbl, u, age) ==
    IF tbl[u].present THEN [tbl EXCEPT ![u].age = age] ELSE tbl

update_user_preferences(tbl, u, preferences) ==
    IF tbl[u].present THEN [tbl EXCEPT ![u].preferences = preferences]
    ELSE tbl

\* stats_utils.py save_drink_record: one INSERT into user_drinks
stats_save_drink_record(tbl, u, amount) ==
    tbl \cup {DrinkRow(u, amount, Today, Cardinality(tbl) + 1)}

\* message_handlers.py lines 143-160: the age and the preferences found in
\* the text are written to the row of the user
ProfileFacts(tbl, u, text) ==
    LET age == parse_age_from_text(text)
        preferences == parse_drink_preferences(text)
        aged == IF age # NoAge THEN update_user_age(tbl, u, age) ELSE tbl IN
    IF preferences # <<>> THEN update_user_preferences(aged, u, preferences)
    ELSE aged

\* message_handlers.py lines 162-169: a report found in the text is stored
DrinkFacts(tbl, u, text) ==
    IF mh_parse_drink_info(text) # NoDrinkInfo
    THEN stats_save_drink_record(tbl, u, mh_parse_drink_info(text))
    ELSE tbl

IdleHandler ==
    [pc |-> "idle", user |-> 0, mid |-> 0, answer |-> "", cmd |-> NoCommand,
     calls |-> {}, text |-> ""]

Waiting(pcv, u, mid, answer, cmd) ==
    [pc |-> pcv, user |-> u, mid |-> mid, answer |-> answer, cmd |-> cmd,
     calls |-> {}, text |-> ""]

IsStatsRequest(text) == text = "statistika"

STATS_REPLY == "stats_report"
REMINDER_MSG == "stats_reminder"
FALLBACK_MESSAGE == "handler_fallback"
GIFT_REQUEST == "gift_request"

\* a completion whose content is the empty string
LLM_EMPTY == ""

\* llm_reply (llm_utils.py): the model's text, stripped, as it is (also when
\* it is empty); the fallback string when the client is missing or the call
\* raises or times out
llm_reply(llm) ==
    IF llm \in AnswerTexts \cup {LLM_EMPTY} THEN llm ELSE LLM_FALLBACK

\* the chat platform refuses a message without text: reply_text("") raises
AcceptsText(ok, content) == ok /\ content # ""

\* lines 111-201, up to the first await: the user turn is stored, the quick
\* flag is reset, the branch is chosen and its text is produced
Receive(h, u, first_name, text, okSave, okReset, okRemind, detected, llm) ==
    /\ hs[h].pc = "idle"
    /\ nextMid < MaxInbound
    /\ nextMid' = nextMid + 1
    /\ LET mid == nextMid + 1
           stale == NameOrGenderStale(users, u, first_name)
           named == IF stale
                    THEN update_user_name_and_gender(users, u, first_name,
                                                     detected)
                    ELSE users
           genderCall == IF stale /\ DetectsGender(users, u)
                         THEN {"detect_gender"} ELSE {}
           flagged == IF okReset THEN reset_quick_message_flag(named, u)
                      ELSE named IN
       IF ~okSave
       THEN /\ hs' = [hs EXCEPT ![h] = Waiting("fallback", u, mid, "", NoCommand)]
            /\ UNCHANGED <<messages, users, user_drinks>>
       ELSE /\ messages' = save_message(messages, ChatOf(u), u, "user", text,
                                        NoCommand, mid)
            /\ users' = IF IsStatsRequest(text) THEN flagged
                        ELSE ProfileFacts(flagged, u, text)
            /\ user_drinks' = IF IsStatsRequest(text) THEN user_drinks
                              ELSE DrinkFacts(user_drinks, u, text)
            /\ hs' = [hs EXCEPT ![h] =
                 IF IsStatsRequest(text)
                 THEN [Waiting("reply_stats", u, mid, STATS_REPLY, NoCommand)
                       EXCEPT !.calls = genderCall]
                 ELSE IF should_remind_about_stats(users, u, okRemind)
                 THEN [Waiting("reply_reminder", u, mid, REMINDER_MSG,
                               NoCommand)
                       EXCEPT !.calls = genderCall]
                 ELSE [Waiting("reply_answer", u, mid, llm_reply(llm),
                               StickerCommandFor(llm_reply(llm)))
                       EXCEPT !.calls = genderCall \cup {"llm_reply"}]]
    /\ UNCHANGED <<now, katya_free_drinks, outbox, pay, payCount, preCheckout,
                   quick, auto>>
    /\ UNCHANGED web

\* lines 139-141: await reply_text(stats), then the agent turn is stored
ReplyStats(h, okSend, okSave) ==
    /\ hs[h].pc = "reply_stats"
    /\ LET u == hs[h].user
           mid == hs[h].mid IN
       /\ outbox' = Deliver(outbox, okSend,
                            Sent(ChatOf(u), "text", STATS_REPLY, "msg", mid))
       /\ IF okSend /\ okSave
          THEN /\ messages' = save_message(messages, ChatOf(u), u, "assistant",
                                           STATS_REPLY, NoCommand, mid)
               /\ hs' = [hs EXCEPT ![h] = IdleHandler]
          ELSE /\ UNCHANGED messages
               /\ hs' = [hs EXCEPT ![h].pc = "fallback"]
    /\ UNCHANGED <<now, users, katya_free_drinks, nextMid, pay, payCount,
                   preCheckout, quick, auto>>
    /\ UNCHANGED user_drinks
    /\ UNCHANGED web

\* lines 172-177: await reply_text(reminder), store the agent turn, mark the
\* reminder as sent
ReplyReminder(h, okSend, okSave, okUpd) ==
    /\ hs[h].pc = "reply_reminder"
    /\ LET u == hs[h].user
           mid == hs[h].mid IN
       /\ outbox' = Deliver(outbox, okSend,
                            Sent(ChatOf(u), "text", REMINDER_MSG, "msg", mid))
       /\ IF okSend /\ okSave
          THEN /\ messages' = save_message(messages, ChatOf(u), u, "assistant",
                                           REMINDER_MSG, NoCommand, mid)
               /\ users' = IF okUpd THEN update_stats_reminder(users, u)
                           ELSE users
               /\ hs' = [hs EXCEPT ![h] = IdleHandler]
          ELSE /\ UNCHANGED <<messages, users>>
               /\ hs' = [hs EXCEPT ![h].pc = "fallback"]
    /\ UNCHANGED <<now, katya_free_drinks, nextMid, pay, payCount, preCheckout,
                   quick, auto>>
    /\ UNCHANGED user_drinks
    /\ UNCHANGED web

\* lines 200-221: await reply_text(answer); with a sticker command the quota
\* is asked, without one the agent turn is stored.  An exception here is
\* caught by the inner handler (line 222), which only logs.
ReplyAnswer(h, okSend, okQuota, okSave) ==
    /\ hs[h].pc = "reply_answer"
    /\ LET u == hs[h].user
           mid == hs[h].mid
           chat == ChatOf(hs[h].user) IN
       /\ outbox' = Deliver(outbox, AcceptsText(okSend, hs[h].answer),
                            Sent(chat, "text", hs[h].answer, "msg", mid))
       /\ IF ~AcceptsText(okSend, hs[h].answer)
          THEN /\ hs' = [hs EXCEPT ![h] = IdleHandler]
               /\ UNCHANGED <<messages, katya_free_drinks>>
          ELSE IF hs[h].cmd # NoCommand
          THEN /\ katya_free_drinks' =
                      can_katya_drink_free_store(katya_free_drinks, chat, okQuota)
               /\ hs' = [hs EXCEPT ![h].pc =
                      IF can_katya_drink_free(katya_free_drinks, chat, okQuota)
                      THEN "sticker" ELSE "gift"]
               /\ UNCHANGED messages
          ELSE /\ messages' = IF okSave
                              THEN save_message(messages, chat, u, "assistant",
                                                hs[h].answer, NoCommand, mid)
                              ELSE messages
               /\ hs' = [hs EXCEPT ![h] = IdleHandler]
               /\ UNCHANGED katya_free_drinks
    /\ UNCHANGED <<now, users, nextMid, pay, payCount, preCheckout, quick, auto>>
    /\ UNCHANGED user_drinks
    /\ UNCHANGED web

\* lines 208-212: await send_sticker_by_command (which swallows its errors),
\* count the drink, store the agent turn with the sticker command
SendSticker(h, okSend, okInc, okSave) ==
    /\ hs[h].pc = "sticker"
    /\ LET u == hs[h].user
           mid == hs[h].mid
           chat == ChatOf(hs[h].user) IN
       /\ outbox' = Deliver(outbox, okSend /\ HasSticker(hs[h].cmd),
                            Sent(chat, "sticker", hs[h].cmd, "msg", mid))
       /\ katya_free_drinks' = increment_katya_drinks(katya_free_drinks, chat, okInc)
       /\ messages' = IF okSave
                      THEN save_message(messages, chat, u, "assistant",
                                        hs[h].answer, hs[h].cmd, mid)
                      ELSE messages
       /\ hs' = [hs EXCEPT ![h] = IdleHandler]
    /\ UNCHANGED <<now, users, nextMid, pay, payCount, preCheckout, quick, auto>>
    /\ UNCHANGED user_drinks
    /\ UNCHANGED web

\* lines 215-218: await send_gift_request (bot.send_message, errors swallowed),
\* store the agent turn without a sticker
SendGiftRequest(h, okSend, okSave) ==
    /\ hs[h].pc = "gift"
    /\ LET u == hs[h].user
           mid == hs[h].mid
           chat == ChatOf(hs[h].user) IN
       /\ outbox' = Deliver(outbox, okSend,
                            Sent(chat, "text", GIFT_REQUEST, "msg", mid))
       /\ messages' = IF okSave
                      THEN save_message(messages, chat, u, "assistant",
                                        hs[h].answer, NoCommand, mid)
                      ELSE messages
       /\ hs' = [hs EXCEPT ![h] = IdleHandler]
    /\ UNCHANGED <<now, users, katya_free_drinks, nextMid, pay, payCount,
                   preCheckout, quick, auto>>
    /\ UNCHANGED user_drinks
    /\ UNCHANGED web

\* lines 224-229: the outer except: await reply_text(fallback), store it;
\* an exception raised here leaves the handler
ReplyFallback(h, okSend, okSave) ==
    /\ hs[h].pc = "fallback"
    /\ LET u == hs[h].user
           mid == hs[h].mid IN
       /\ outbox' = Deliver(outbox, okSend,
                            Sent(ChatOf(u), "text", FALLBACK_MESSAGE, "msg", mid))
       /\ messages' = IF okSend /\ okSave
                      THEN save_message(messages, ChatOf(u), u, "assistant",
                                        FALLBACK_MESSAGE, NoCommand, mid)
                      ELSE messages
       /\ hs' = [hs EXCEPT ![h] = IdleHandler]
    /\ UNCHANGED <<now, users, katya_free_drinks, nextMid, pay, payCount,
                   preCheckout, quick, auto>>
    /\ UNCHANGED user_drinks
    /\ UNCHANGED web

\* the passage of time
AdvanceTime(d) ==
    /\ now + d <= MaxNow
    /\ now' = now + d
    /\ UNCHANGED <<users, messages, katya_free_drinks, outbox, hs, nextMid,
                   pay, payCount, preCheckout, quick, auto>>
    /\ UNCHANGED user_drinks
    /\ UNCHANGED web

\* ------------------------------------------------------------------------
\* msg_handler (app.py, lines 1110-1245)
\* ------------------------------------------------------------------------
DAILY_LIMIT == 10
REPORT_AMOUNT == 5

\* inbound texts of msg_handler: a stats keyword, a report of REPORT_AMOUNT
\* drinks, neither
MsgTexts == {"statistika", "vypil 5 piva", "plain"}

\* parse_drink_info: the amount of the reported drink, 0 for None
parse_drink_info(text) == IF text = "vypil 5 piva" THEN REPORT_AMOUNT ELSE 0

\* app.py save_drink_record: one INSERT, then last_drink_report of the user
\* row becomes CURRENT_DATE
save_drink_record(tbl, u, amount) ==
    tbl \cup {DrinkRow(u, amount, Today, Cardinality(tbl) + 1)}

report_drink_date(tbl, u) ==
    IF tbl[u].present THEN [tbl EXCEPT ![u].last_drink_report = Today] ELSE tbl

RECURSIVE SumAmounts(_)
SumAmounts(rows) ==
    IF rows = {} THEN 0
    ELSE LET r == CHOOSE x \in rows : TRUE IN r.amount + SumAmounts(rows \ {r})

\* app.py get_daily_drinks: the rows of the user with DATE(drink_time) =
\* CURRENT_DATE
get_daily_drinks(tbl, u) ==
    {r \in tbl : r.user_tg_id = u /\ r.drink_date = Today}

\* app.py check_daily_limit
check_daily_limit(tbl, u) == SumAmounts(get_daily_drinks(tbl, u)) >= DAILY_LIMIT

\* app.py should_send_limit_warning (no caller in the repository)
should_send_limit_warning(tbl, u) ==
    tbl[u].limit_warning_sent = NoTime \/ tbl[u].limit_warning_sent # Today

\* app.py mark_limit_warning_sent: UPDATE ... SET limit_warning_sent =
\* CURRENT_DATE
mark_limit_warning_sent(tbl, u) ==
    IF tbl[u].present THEN [tbl EXCEPT ![u].limit_warning_sent = Today] ELSE tbl

\* app.py should_remind_about_stats (lines 1976-2018): never reminded, or a
\* full day since the reminder and no report today
app_should_remind_about_stats(tbl, u) ==
    \/ ~tbl[u].present
    \/ tbl[u].last_stats_reminder = NoTime
    \/ /\ (now - tbl[u].last_stats_reminder) \div DAY >= 1
       /\ \/ tbl[u].last_drink_report = NoTime
          \/ tbl[u].last_drink_report < Today

WARNING_LLM == "warning_from_model"
WARNING_STATIC == "warning_static"

\* lines 1112-1208, up to the first await: the branch is chosen and its text
\* is produced.  The warning is asked of the model directly (line 1168), the
\* static text stands in when that call raises.
MsgReceive(h, u, text, llm) ==
    /\ hs[h].pc = "idle"
    /\ nextMid < MaxInbound
    /\ nextMid' = nextMid + 1
    /\ LET mid == nextMid + 1
           amount == parse_drink_info(text)
           reported == ~IsStatsRequest(text) /\ amount > 0
           drinks == IF reported THEN save_drink_record(user_drinks, u, amount)
                     ELSE user_drinks
           dated == IF reported THEN report_drink_date(users, u) ELSE users
           w == [Waiting("msg_stats", u, mid, STATS_REPLY, NoCommand)
                 EXCEPT !.text = text] IN
       /\ user_drinks' = drinks
       /\ users' = dated
       /\ hs' = [hs EXCEPT ![h] =
            IF IsStatsRequest(text) THEN w
            ELSE IF reported /\ check_daily_limit(drinks, u)
            THEN [w EXCEPT !.pc = "msg_warning",
                           !.answer = IF llm \in AnswerTexts THEN WARNING_LLM
                                      ELSE WARNING_STATIC,
                           !.calls = {"warning"}]
            ELSE IF app_should_remind_about_stats(dated, u)
            THEN [w EXCEPT !.pc = "msg_reminder", !.answer = REMINDER_MSG]
            ELSE [w EXCEPT !.pc = "msg_answer", !.answer = llm_reply(llm),
                           !.cmd = StickerCommandFor(llm_reply(llm)),
                           !.calls = {"llm_reply"}]]
    /\ UNCHANGED <<now, messages, katya_free_drinks, outbox, pay, payCount,
                   preCheckout, quick, auto>>

\* the rest of a branch that ends with its reply: await reply_text, store
\* the agent turn, write the mark of the branch, return (lines 1124-1126,
\* 1179-1182, 1190-1193, and 1228-1245 for an answer without a side-signal)
MsgReply(h) ==
    /\ hs[h].pc \in {"msg_stats", "msg_warning", "msg_reminder", "msg_answer"}
    /\ hs[h].cmd = NoCommand
    /\ LET u == hs[h].user
           mid == hs[h].mid IN
       /\ outbox' = Deliver(outbox, TRUE,
                            Sent(ChatOf(u), "text", hs[h].answer, "msg", mid))
       /\ messages' = save_message(messages, ChatOf(u), u, "assistant",
                                   hs[h].answer, NoCommand, mid)
       /\ users' = CASE hs[h].pc = "msg_warning" -> mark_limit_warning_sent(users, u)
                      [] hs[h].pc = "msg_reminder" -> update_stats_reminder(users, u)
                      [] OTHER -> users
    /\ hs' = [hs EXCEPT ![h] = IdleHandler]
    /\ UNCHANGED <<now, katya_free_drinks, nextMid, pay, payCount, preCheckout,
                   quick, auto, user_drinks>>

\* ------------------------------------------------------------------------
\* telegram_webhook (app.py, lines 1506-1531)
\* ------------------------------------------------------------------------
BOT_TOKEN == "bot_token"
Tokens == {BOT_TOKEN, "other_token"}

\* request bodies: a text update, bytes that are no JSON, a JSON list, a JSON
\* object that Update.de_json rejects
Bodies == {"text_update", "no_json", "json_list", "bad_update"}

HTTP_OK == 200
HTTP_BAD_REQUEST == 400
HTTP_FORBIDDEN == 403
HTTP_INTERNAL_ERROR == 500
HTTP_UNAVAILABLE == 503

\* safe_execute around an endpoint: an exception the endpoint raises is
\* caught (lines 76-91) and the fallback string is returned, which the
\* framework sends as the body of an answer with status 200
safe_execute(raised, status) == IF raised THEN HTTP_OK ELSE status

\* line 1509-1510: the HTTPException of a wrong path secret is the one
\* exception that leaves the endpoint; safe_execute counts it in
\* error_counts (lines 83-84)
EndpointRaises(token) == token # BOT_TOKEN

\* telegram_webhook without the test of the path secret
WebhookRefusal_unchecked(token, body, tapp) ==
    IF body = "no_json" THEN safe_execute(FALSE, HTTP_INTERNAL_ERROR)
    ELSE IF body = "json_list" THEN safe_execute(FALSE, HTTP_BAD_REQUEST)
    ELSE IF ~tapp THEN safe_execute(FALSE, HTTP_UNAVAILABLE)
    ELSE IF body = "bad_update" THEN safe_execute(FALSE, HTTP_INTERNAL_ERROR)
    ELSE 0

\* the status telegram_webhook answers with when it does not hand the update
\* to the dispatcher; 0 when it does
WebhookRefusal(token, body, tapp) ==
    IF EndpointRaises(token) THEN safe_execute(TRUE, HTTP_FORBIDDEN)
    ELSE IF body = "no_json" THEN safe_execute(FALSE, HTTP_INTERNAL_ERROR)
    ELSE IF body = "json_list" THEN safe_execute(FALSE, HTTP_BAD_REQUEST)
    ELSE IF ~tapp THEN safe_execute(FALSE, HTTP_UNAVAILABLE)
    ELSE IF body = "bad_update" THEN safe_execute(FALSE, HTTP_INTERNAL_ERROR)
    ELSE 0

Response(token, body, status) ==
    [token |-> token, body |-> body, tapp |-> web.tapp, status |-> status,
     mid |-> IF status = 0 THEN nextMid + 1 ELSE 0]

\* on_startup (line 1561): tapp = build_application()
Startup ==
    /\ ~web.tapp
    /\ web' = [web EXCEPT !.tapp = TRUE]
    /\ UNCHANGED <<now, users, messages, katya_free_drinks, outbox, hs, nextMid,
                   pay, payCount, preCheckout, quick, auto, user_drinks>>

\* a request that is answered without the dispatcher
WebhookRefuse(token, body) ==
    /\ Len(web.responses) < MaxRequests
    /\ WebhookRefusal(token, body, web.tapp) # 0
    /\ web' = [web EXCEPT !.responses =
                 Append(@, Response(token, body,
                                    WebhookRefusal(token, body, web.tapp))),
                          !.error_counts =
                 IF EndpointRaises(token) THEN @ + 1 ELSE @]
    /\ UNCHANGED <<now, users, messages, katya_free_drinks, outbox, hs, nextMid,
                   pay, payCount, preCheckout, quick, auto, user_drinks>>

\* a request whose update goes to msg_handler (line 1526); the answer is
\* written when process_update returns (status 0 until then)
WebhookDispatch(token, body, h, text, llm) ==
    /\ Len(web.responses) < MaxRequests
    /\ WebhookRefusal(token, body, web.tapp) = 0
    /\ MsgReceive(h, 1, text, llm)
    /\ web' = [web EXCEPT !.responses = Append(@, Response(token, body, 0))]

\* line 1527: process_update has returned, the endpoint answers "OK"
WebhookReturn(h) ==
    /\ MsgReply(h)
    /\ web' = [web EXCEPT !.responses =
                 [i \in DOMAIN @ |->
                    IF @[i].mid = hs[h].mid THEN [@[i] EXCEPT !.status = HTTP_OK]
                    ELSE @[i]]]

\* ------------------------------------------------------------------------
\* The gift purchase flow
\* ------------------------------------------------------------------------
\* app.py gift_callback, drink_info: the catalog, item code -> price in stars
drink_info ==
    [gift_wine |-> 250, gift_vodka |-> 100, gift_whisky |-> 500, gift_beer |-> 50]

CatalogItems == DOMAIN drink_info

\* app.py gift_callback, line 1004: payload = "gift_" + callback data
InvoicePayload(item) ==
    CASE item = "gift_wine"   -> "gift_gift_wine"
      [] item = "gift_vodka"  -> "gift_gift_vodka"
      [] item = "gift_whisky" -> "gift_gift_whisky"
      [] item = "gift_beer"   -> "gift_gift_beer"
      [] OTHER                -> "gift_unknown"

INVOICE_CURRENCY == "XTR"

\* a pre-checkout query is structurally valid when it names an item of the
\* catalog at the catalog price in the invoice currency
ValidQuery(q) ==
    \E item \in CatalogItems :
        /\ q.invoice_payload = InvoicePayload(item)
        /\ q.total_amount = drink_info[item]
        /\ q.currency = INVOICE_CURRENCY

PreCheckoutQueries ==
    [invoice_payload : {"gift_gift_wine", "gift_gift_beer", "gift_unknown"},
     total_amount : {250, 50, 1},
     currency : {"XTR", "USD"}]

NoPreCheckout ==
    [answered |-> FALSE,
     query |-> [invoice_payload |-> "", total_amount |-> 0, currency |-> ""],
     ok |-> FALSE]

\* app.py pre_checkout_query, line 1056: the answer given to a query
pre_checkout_answer(q) == TRUE

\* app.py pre_checkout_query (lines 1047-1056): the last query and its answer
PreCheckoutQuery(q) ==
    /\ preCheckout' = [answered |-> TRUE, query |-> q, ok |-> pre_checkout_answer(q)]
    /\ UNCHANGED <<now, users, messages, katya_free_drinks, outbox, hs, nextMid,
                   pay, payCount, quick, auto>>
    /\ UNCHANGED user_drinks
    /\ UNCHANGED web

\* the payloads a confirmed payment can carry: the ones gift_callback writes,
\* and the callback data of the buttons of send_gift_request ("gift_" + the
\* lower-cased Russian name of the drink, written here in Latin letters)
Payloads == {"gift_gift_wine", "gift_gift_vodka", "gift_gift_whisky",
             "gift_gift_beer", "gift_vino"}

\* message_handlers.py, lines 281-289: the chain of substring tests on the
\* payload ("gift_vino" stands for the payload containing the Russian word)
PaymentSticker(payload) ==
    IF payload = "gift_vino" THEN "[SEND_DRINK_WINE]"
    ELSE IF payload = "gift_vodka_ru" THEN "[SEND_DRINK_VODKA]"
    ELSE IF payload = "gift_viski" THEN "[SEND_DRINK_WHISKY]"
    ELSE IF payload = "gift_pivo" THEN "[SEND_DRINK_BEER]"
    ELSE "[SEND_DRINK_BEER]"

\* gender_llm.py generate_gender_appropriate_gratitude: 5 messages without the
\* model, otherwise as many as the model's answer has non-empty lines
FALLBACK_GRATITUDE_LEN == 5
GratitudeLens == {FALLBACK_GRATITUDE_LEN, 2}

IdlePayment == [pc |-> "idle", user |-> 0, charge |-> 0, payload |-> "", n |-> 0, i |-> 0]

\* handle_successful_payment, lines 233-274: up to the first await
PaymentStart(u, charge, payload, n) ==
    /\ pay.pc = "idle"
    /\ payCount < MaxPayments
    /\ payCount' = payCount + 1
    /\ pay' = [pc |-> "thanks", user |-> u, charge |-> charge,
               payload |-> payload, n |-> n, i |-> 1]
    /\ UNCHANGED <<now, users, messages, katya_free_drinks, outbox, hs, nextMid,
                   preCheckout, quick, auto>>
    /\ UNCHANGED user_drinks
    /\ UNCHANGED web

\* lines 273-275: await sleep, await bot.send_message(message i); a failed
\* send raises into the outer except (line 298), which ends the handler
PaymentThanks(okSend) ==
    /\ pay.pc = "thanks"
    /\ outbox' = Deliver(outbox, okSend,
                         SentNth(ChatOf(pay.user), "text", "gratitude", "pay",
                                 pay.charge, pay.i))
    /\ pay' = IF ~okSend THEN IdlePayment
              ELSE IF pay.i < pay.n THEN [pay EXCEPT !.i = @ + 1]
              ELSE [pay EXCEPT !.pc = "sticker"]
    /\ UNCHANGED <<now, users, messages, katya_free_drinks, hs, nextMid,
                   payCount, preCheckout, quick, auto>>
    /\ UNCHANGED user_drinks
    /\ UNCHANGED web

\* lines 281-296: await send_sticker_by_command, await update_katya_free_drinks
PaymentFinish(okSend, okUpd) ==
    /\ pay.pc = "sticker"
    /\ outbox' = Deliver(outbox, okSend /\ HasSticker(PaymentSticker(pay.payload)),
                         Sent(ChatOf(pay.user), "sticker",
                              PaymentSticker(pay.payload), "pay", pay.charge))
    /\ katya_free_drinks' =
           update_katya_free_drinks(katya_free_drinks, ChatOf(pay.user), 1, okUpd)
    /\ pay' = IdlePayment
    /\ UNCHANGED <<now, users, messages, hs, nextMid, payCount, preCheckout,
                   quick, auto>>
    /\ UNCHANGED user_drinks
    /\ UNCHANGED web

\* ------------------------------------------------------------------------
\* The re-engagement timers (schedulers.py, database.py, llm_utils.py)
\* ------------------------------------------------------------------------
\* MAX(created_at) over the rows of the user with role 'user'
UserMessageTimes(u) ==
    {messages[i].created_at : i \in {j \in DOMAIN messages :
        messages[j].role = "user" /\ messages[j].user_tg_id = u}}

last_user_message_time(u) ==
    IF UserMessageTimes(u) = {} THEN NoTime
    ELSE CHOOSE t \in UserMessageTimes(u) : \A x \in UserMessageTimes(u) : x <= t

\* database.py get_users_for_quick_message: the WHERE clause
QuickEligible(u) ==
    /\ users[u].present
    /\ last_user_message_time(u) # NoTime
    /\ last_user_message_time(u) < now - QUICK_IDLE
    /\ users[u].quick_message_sent = FALSE
    /\ (users[u].last_auto_message = NoTime
        \/ users[u].last_auto_message < now - HOUR)

get_users_for_quick_message == {u \in Users : QuickEligible(u)}

\* the WHERE clause of get_users_for_auto_message without the test of
\* last_auto_message: the variant that looks at the idle time only
AutoEligible_idle_only(u) ==
    /\ users[u].present
    /\ last_user_message_time(u) # NoTime
    /\ last_user_message_time(u) < now - DAY

\* database.py get_users_for_auto_message: the WHERE clause
AutoEligible(u) ==
    /\ users[u].present
    /\ last_user_message_time(u) # NoTime
    /\ last_user_message_time(u) < now - DAY
    /\ (users[u].last_auto_message = NoTime
        \/ users[u].last_auto_message < now - DAY)

get_users_for_auto_message == {u \in Users : AutoEligible(u)}

\* update_last_quick_message without the flag: the variant that only stamps
\* the time of the prompt
update_last_quick_message_noflag(tbl, u, storeOk) ==
    IF storeOk /\ tbl[u].present
    THEN [tbl EXCEPT ![u].last_quick_message = now]
    ELSE tbl

\* database.py update_last_quick_message
update_last_quick_message(tbl, u, storeOk) ==
    IF storeOk /\ tbl[u].present
    THEN [tbl EXCEPT ![u].last_quick_message = now,
                     ![u].quick_message_sent = TRUE]
    ELSE tbl

\* database.py update_last_auto_message
update_last_auto_message(tbl, u, storeOk) ==
    IF storeOk /\ tbl[u].present
    THEN [tbl EXCEPT ![u].last_auto_message = now]
    ELSE tbl

QUICK_STATIC == "quick_static_greeting"
AUTO_STATIC == "auto_static_greeting"

\* llm_utils.py generate_quick_message_llm: the model's text, or the static
\* greeting when the client is missing or the call raises
generate_quick_message_llm(llmOk) == IF llmOk THEN "quick_llm_text" ELSE QUICK_STATIC

\* llm_utils.py generate_auto_message_llm
generate_auto_message_llm(llmOk) == IF llmOk THEN "auto_llm_text" ELSE AUTO_STATIC

\* the orders in which a query without ORDER BY can return a set of rows
Orders(S) ==
    {q \in UNION {[1..n -> S] : n \in {Cardinality(S)}} :
        \A i, j \in DOMAIN q : i # j => q[i] # q[j]}

\* a timer between two ticks.  due and selected are history: the users the
\* last tick found idle past its threshold, and the users it selected
IdleTimer(t) ==
    [pc |-> "idle", queue |-> <<>>, message |-> "", runs |-> t.runs,
     due |-> t.due, selected |-> t.selected]

NewTimer ==
    [pc |-> "idle", queue |-> <<>>, message |-> "", runs |-> 0,
     due |-> {}, selected |-> {}]

\* the users a quick tick finds idle past the threshold and not yet prompted
\* since their last inbound message
QuickDue ==
    {u \in Users : /\ users[u].present
                   /\ last_user_message_time(u) # NoTime
                   /\ last_user_message_time(u) < now - QUICK_IDLE
                   /\ users[u].quick_message_sent = FALSE}

\* the users an auto tick finds idle for more than a day
AutoDue ==
    {u \in Users : /\ users[u].present
                   /\ last_user_message_time(u) # NoTime
                   /\ last_user_message_time(u) < now - DAY}

\* send_quick_messages, lines 21-39: the selection and, for the first user,
\* the mark and the generated text, up to the await of the send
QuickTick(okSelect, order, okUpd, llmOk) ==
    /\ quick.pc = "idle"
    /\ quick.runs < MaxQuickTicks
    /\ order \in Orders(get_users_for_quick_message)
    /\ IF okSelect /\ order # <<>>
       THEN /\ users' = update_last_quick_message(users, order[1], okUpd)
            /\ quick' = [pc |-> "send", queue |-> order,
                         message |-> generate_quick_message_llm(llmOk),
                         runs |-> quick.runs + 1,
                         due |-> QuickDue,
                         selected |-> get_users_for_quick_message]
       ELSE /\ quick' = [quick EXCEPT !.runs = @ + 1, !.due = QuickDue,
                                      !.selected = {}]
            /\ UNCHANGED users
    /\ UNCHANGED <<now, messages, katya_free_drinks, outbox, hs, nextMid, pay,
                   payCount, preCheckout, auto>>
    /\ UNCHANGED user_drinks
    /\ UNCHANGED web

\* send_quick_messages, lines 26-44: the awaited send to the current user,
\* then the mark and the text of the next user
QuickSend(okSend, okUpd, llmOk) ==
    /\ quick.pc = "send"
    /\ outbox' = Deliver(outbox, okSend,
                         Sent(ChatOf(quick.queue[1]), "text", quick.message,
                              "quick", quick.runs))
    /\ IF Len(quick.queue) > 1
       THEN /\ users' = update_last_quick_message(users, quick.queue[2], okUpd)
            /\ quick' = [quick EXCEPT !.queue = Tail(@),
                                      !.message = generate_quick_message_llm(llmOk)]
       ELSE /\ quick' = IdleTimer(quick)
            /\ UNCHANGED users
    /\ UNCHANGED <<now, messages, katya_free_drinks, hs, nextMid, pay, payCount,
                   preCheckout, auto>>
    /\ UNCHANGED user_drinks
    /\ UNCHANGED web

\* send_auto_messages, lines 51-69
AutoTick(okSelect, order, okUpd, llmOk) ==
    /\ auto.pc = "idle"
    /\ auto.runs < MaxAutoTicks
    /\ order \in Orders(get_users_for_auto_message)
    /\ IF okSelect /\ order # <<>>
       THEN /\ users' = update_last_auto_message(users, order[1], okUpd)
            /\ auto' = [pc |-> "send", queue |-> order,
                        message |-> generate_auto_message_llm(llmOk),
                        runs |-> auto.runs + 1,
                        due |-> AutoDue,
                        selected |-> get_users_for_auto_message]
       ELSE /\ auto' = [auto EXCEPT !.runs = @ + 1, !.due = AutoDue,
                                    !.selected = {}]
            /\ UNCHANGED users
    /\ UNCHANGED <<now, messages, katya_free_drinks, outbox, hs, nextMid, pay,
                   payCount, preCheckout, quick>>
    /\ UNCHANGED user_drinks
    /\ UNCHANGED web

\* send_auto_messages, lines 56-74
AutoSend(okSend, okUpd, llmOk) ==
    /\ auto.pc = "send"
    /\ outbox' = Deliver(outbox, okSend,
                         Sent(ChatOf(auto.queue[1]), "text", auto.message,
                              "auto", auto.runs))
    /\ IF Len(auto.queue) > 1
       THEN /\ users' = update_last_auto_message(users, auto.queue[2], okUpd)
            /\ auto' = [auto EXCEPT !.queue = Tail(@),
                                    !.message = generate_auto_message_llm(llmOk)]
       ELSE /\ auto' = IdleTimer(auto)
            /\ UNCHANGED users
    /\ UNCHANGED <<now, messages, katya_free_drinks, hs, nextMid, pay, payCount,
                   preCheckout, quick>>
    /\ UNCHANGED user_drinks
    /\ UNCHANGED web

\* ------------------------------------------------------------------------
\* Specifications
\* ------------------------------------------------------------------------
InitBase ==
    /\ web = [tapp |-> FALSE, responses |-> <<>>, error_counts |-> 0]
    /\ outbox = EmptyBag
    /\ hs = [h \in Handlers |-> IdleHandler]
    /\ nextMid = 0
    /\ pay = IdlePayment
    /\ payCount = 0
    /\ preCheckout = NoPreCheckout
    /\ quick = NewTimer
    /\ auto = NewTimer

\* The conversation of user 1: message handling, the quota and the payments.
\* The store starts with the user known or not, reminded or not, and with any
\* quota record an earlier conversation can have left.
Init ==
    /\ InitBase
    /\ user_drinks = {}
    /\ now = 0
    /\ messages = <<>>
    /\ \E r \in {NoUserRow, UserRow(NoTime), UserRow(0)} :
           users = [u \in Users |-> IF u = 1 THEN r ELSE NoUserRow]
    /\ \E d \in {NoDrinksRow} \cup {DrinksRow(k, 0) : k \in {0, QUOTA_MAX - 1, QUOTA_MAX}} :
           katya_free_drinks = [c \in Users |-> IF c = 1 THEN d ELSE NoDrinksRow]

HandlerStep(h) ==
    \/ \E okSend, okSave \in BOOLEAN : ReplyStats(h, okSend, okSave)
    \/ \E okSend, okSave, okUpd \in BOOLEAN : ReplyReminder(h, okSend, okSave, okUpd)
    \/ \E okSend, okQuota, okSave \in BOOLEAN : ReplyAnswer(h, okSend, okQuota, okSave)
    \/ \E okSend, okInc, okSave \in BOOLEAN : SendSticker(h, okSend, okInc, okSave)
    \/ \E okSend, okSave \in BOOLEAN : SendGiftRequest(h, okSend, okSave)
    \/ \E okSend, okSave \in BOOLEAN : ReplyFallback(h, okSend, okSave)

PaymentStep ==
    \/ \E okSend \in BOOLEAN : PaymentThanks(okSend)
    \/ \E okSend, okUpd \in BOOLEAN : PaymentFinish(okSend, okUpd)

Next ==
    \/ \E h \in Handlers, text \in Texts, okSave, okReset, okRemind \in BOOLEAN,
          llm \in {"neutral", "wine", "whisky", "happy", LLM_FALLBACK} :
           \E detected \in DetectedGenders :
             Receive(h, 1, FIRST_NAME, text, okSave, okReset, okRemind,
                     detected, llm)
    \/ \E h \in Handlers : HandlerStep(h)
    \/ AdvanceTime(DAY)

Spec == Init /\ [][Next]_vars

\* The default branch next to the quota ledger: user 1 is known and was
\* reminded of the statistics today, the ledger holds a record of today with
\* one free drink left or none.
InitQuota ==
    /\ InitBase
    /\ user_drinks = {}
    /\ now = 0
    /\ messages = <<>>
    /\ users = [u \in Users |-> IF u = 1 THEN UserRow(0) ELSE NoUserRow]
    /\ \E k \in {QUOTA_MAX - 1, QUOTA_MAX} :
           katya_free_drinks = [c \in Users |-> IF c = 1 THEN DrinksRow(k, 0)
                                                ELSE NoDrinksRow]

DefaultStep(h) ==
    \/ \E okSend, okQuota, okSave \in BOOLEAN : ReplyAnswer(h, okSend, okQuota, okSave)
    \/ \E okSend, okInc, okSave \in BOOLEAN : SendSticker(h, okSend, okInc, okSave)
    \/ \E okSend, okSave \in BOOLEAN : SendGiftRequest(h, okSend, okSave)
    \/ \E okSend, okSave \in BOOLEAN : ReplyFallback(h, okSend, okSave)

NextQuota ==
    \/ \E h \in Handlers, okSave \in BOOLEAN, llm \in {"neutral", "wine", "whisky"} :
           Receive(h, 1, FIRST_NAME, "plain", okSave, TRUE, TRUE, "male", llm)
    \/ \E h \in Handlers : DefaultStep(h)
    \/ AdvanceTime(DAY)

SpecQuota == InitQuota /\ [][NextQuota]_vars

\* The gift purchase flow of user 1: pre-checkout queries and confirmed
\* payments, each delivery of which may repeat an earlier charge id.
NextPay ==
    \/ \E q \in PreCheckoutQueries : PreCheckoutQuery(q)
    \/ \E c \in ChargeIds, p \in Payloads, n \in GratitudeLens :
           PaymentStart(1, c, p, n)
    \/ PaymentStep
    \/ AdvanceTime(DAY)

SpecPay == Init /\ [][NextPay]_vars

\* The two timers next to the inbound traffic of two users.  Both users are
\* known and wrote their last message more than a day ago (user 1 got the
\* stats reminder then, user 2 a quarter of an hour later); the store and the
\* chat adapter answer, the language model answers or fails.
TimeSteps == {2 * QUICK_IDLE}

EarlierMessage(u) ==
    [chat_id |-> ChatOf(u), user_tg_id |-> u, role |-> "user",
     content |-> "plain", sticker_sent |-> NoCommand, created_at |-> 0,
     mid |-> 0]

InitTimers ==
    /\ InitBase
    /\ user_drinks = {}
    /\ now = DAY + 1
    /\ messages = <<EarlierMessage(1), EarlierMessage(2)>>
    /\ users = [u \in Users |-> UserRow(u - 1)]
    /\ katya_free_drinks = [c \in Users |-> NoDrinksRow]

Inbound ==
    /\ nextMid < MaxTimerInbound
    /\ \E u \in Users : Receive(1, u, FIRST_NAME, "plain", TRUE, TRUE, TRUE, "male", "neutral")

Reply ==
    \/ ReplyReminder(1, TRUE, TRUE, TRUE)
    \/ ReplyAnswer(1, TRUE, TRUE, TRUE)

QuickTimer ==
    \/ \E order \in Orders(get_users_for_quick_message), llmOk \in BOOLEAN :
           QuickTick(TRUE, order, TRUE, llmOk)
    \/ \E llmOk \in BOOLEAN : QuickSend(TRUE, TRUE, llmOk)

AutoTimer ==
    \/ /\ auto.runs < MaxAutoTicks - 1
       /\ \E order \in Orders(get_users_for_auto_message), llmOk \in BOOLEAN :
              AutoTick(TRUE, order, TRUE, llmOk)
    \/ \E llmOk \in BOOLEAN : AutoSend(TRUE, TRUE, llmOk)

NextTimers ==
    \/ Inbound
    \/ Reply
    \/ QuickTimer
    \/ AutoTimer
    \/ \E d \in TimeSteps : AdvanceTime(d)

SpecTimers == InitTimers /\ [][NextTimers]_vars

\* The daily timer alone next to the inbound traffic: the store answers, the
\* chat adapter accepts a prompt or raises, the language model answers.
DailyTimer ==
    \/ \E order \in Orders(get_users_for_auto_message) :
           AutoTick(TRUE, order, TRUE, TRUE)
    \/ \E okSend \in BOOLEAN : AutoSend(okSend, TRUE, TRUE)

NextAuto ==
    \/ Inbound
    \/ Reply
    \/ DailyTimer
    \/ \E d \in TimeSteps : AdvanceTime(d)

SpecAuto == InitTimers /\ [][NextAuto]_vars

\* ------------------------------------------------------------------------
\* Properties
\* ------------------------------------------------------------------------
\* the number of accepted outbound calls that satisfy P
NumSent(P(_)) ==
    LET S == {e \in BagToSet(outbox) : P(e)} IN
    IF S = {} THEN 0 ELSE BagCardinality([e \in S |-> outbox[e]])

\* the number of rows of the log that satisfy P
NumRows(P(_)) == Cardinality({i \in DOMAIN messages : P(messages[i])})

RangeOf(q) == {q[i] : i \in DOMAIN q}

\* the inbound message mid has been delivered and its handler has returned
Done(mid) ==
    /\ mid \in 1..nextMid
    /\ \A h \in Handlers : hs[h].pc = "idle" \/ hs[h].mid # mid

TextsFor(mid) ==
    LET P(e) == e.src = "msg" /\ e.ref = mid /\ e.kind = "text" IN NumSent(P)

StickersFor(mid) ==
    LET P(e) == e.src = "msg" /\ e.ref = mid /\ e.kind = "sticker" IN NumSent(P)

GiftRequestsFor(mid) ==
    LET P(e) == e.src = "msg" /\ e.ref = mid /\ e.content = GIFT_REQUEST IN NumSent(P)

RowsFor(mid, role) ==
    LET P(r) == r.mid = mid /\ r.role = role IN NumRows(P)

\* C1: for every inbound text message whose handler has returned, the chat
\* received no more than the one text that answers it and no more than one
\* sticker (the adapter accepted no second text for the same message).
C1_OneReply ==
    \A mid \in 1..MaxInbound :
        Done(mid) => TextsFor(mid) <= 1 /\ StickersFor(mid) <= 1

\* C2: for every inbound text message whose handler has returned, the log
\* holds exactly one row with role 'user' and exactly one row with role
\* 'assistant' written for it, whatever the adapter and the store did.
C2_OneUserOneAssistantRow ==
    \A mid \in 1..MaxInbound :
        Done(mid) => RowsFor(mid, "user") = 1 /\ RowsFor(mid, "assistant") = 1

\* C3: in every reachable state the free-quota counter of every conversation
\* is in [0, QUOTA_MAX].
C3_CounterInRange ==
    \A c \in Users : katya_free_drinks[c].drinks_count \in 0..QUOTA_MAX

ThanksStartedFor(charge) ==
    LET P(e) == e.src = "pay" /\ e.ref = charge /\ e.kind = "text" /\ e.idx = 1
    IN NumSent(P)

PaymentStickersFor(charge) ==
    LET P(e) == e.src = "pay" /\ e.ref = charge /\ e.kind = "sticker" IN NumSent(P)

\* C4: however often the confirmed payment with one provider charge id is
\* delivered, one thank-you sequence is started and one sticker is sent for
\* it: a second delivery sends nothing.
C4_OneThanksPerCharge ==
    \A c \in ChargeIds : ThanksStartedFor(c) <= 1 /\ PaymentStickersFor(c) <= 1

\* the quota record of the chat says: QUOTA_MAX drinks today
QuotaExhausted(chat) ==
    /\ katya_free_drinks[chat].present
    /\ katya_free_drinks[chat].drinks_count = QUOTA_MAX
    /\ ~ResetDue(katya_free_drinks[chat])

\* the gift offer was chosen for the inbound message mid
GiftOffered(mid) ==
    \/ \E h \in Handlers : hs[h].pc = "gift" /\ hs[h].mid = mid
    \/ GiftRequestsFor(mid) > 0

C5_Log ==
    \A mid \in 1..MaxInbound :
        GiftOffered(mid) =>
            /\ StickersFor(mid) = 0
            /\ GiftRequestsFor(mid) <= 1
            /\ \A i \in DOMAIN messages :
                   messages[i].mid = mid => messages[i].sticker_sent = NoCommand

C5_Step ==
    \A h \in Handlers :
        /\ ( /\ ReplyAnswer(h, TRUE, TRUE, TRUE)
             /\ hs[h].cmd # NoCommand
             /\ QuotaExhausted(ChatOf(hs[h].user)) )
           => /\ hs'[h].pc = "gift"
              /\ katya_free_drinks' = katya_free_drinks
        /\ (hs[h].pc = "gift" /\ hs'[h] # hs[h])
           => /\ katya_free_drinks' = katya_free_drinks
              /\ hs'[h].pc = "idle"
              /\ \A e \in BagToSet(outbox') :
                     e \notin BagToSet(outbox) => e.content = GIFT_REQUEST
              /\ \A i \in DOMAIN messages' :
                     i \notin DOMAIN messages =>
                         /\ messages'[i].role = "assistant"
                         /\ messages'[i].content = hs[h].answer
                         /\ messages'[i].sticker_sent = NoCommand

\* C5: when the reply of the default branch carries a sticker command and the
\* quota record read by the check holds QUOTA_MAX drinks with no reset due,
\* the handler goes on to the gift offer: it sends the gift request and no
\* sticker, leaves the quota record as it is, and stores the agent turn
\* without a sticker command.
C5_GiftInsteadOfSticker == [](C5_Log) /\ [][C5_Step]_vars

C5_Witness ==
    \E mid \in 1..MaxInbound :
        /\ Done(mid)
        /\ GiftRequestsFor(mid) = 1
        /\ TextsFor(mid) = 2
        /\ RowsFor(mid, "assistant") = 1
        /\ QuotaExhausted(1)

\* C6: no step of handle_successful_payment changes the quota record of the
\* conversation (drinks_count and date_reset stay as they were).
C6_PaymentLeavesQuota ==
    [][pay.pc # "idle" => katya_free_drinks' = katya_free_drinks]_vars

\* C7: the pre-checkout handler answers ok exactly when the query names an
\* item of the catalog at its price in the invoice currency, and rejects
\* every other query.
C7_AnswerIffValid ==
    preCheckout.answered => (preCheckout.ok <=> ValidQuery(preCheckout.query))

QuickSentBy(run, u) ==
    LET P(e) == e.src = "quick" /\ e.ref = run /\ e.chat_id = ChatOf(u) IN NumSent(P)

\* no daily prompt was marked for the user within the last hour
NoRecentAuto(u) ==
    users[u].last_auto_message = NoTime \/ users[u].last_auto_message < now - HOUR

\* the quick tick starts in this step
QuickStarts == quick.pc = "idle" /\ quick'.runs = quick.runs + 1

\* the user is taken from the queue of the quick tick in this step
QuickTurnOf(u) ==
    /\ quick'.pc = "send"
    /\ quick'.queue # quick.queue
    /\ quick'.queue[1] = u

C8_State ==
    \A u \in Users :
        /\ \A run \in 1..MaxQuickTicks : QuickSentBy(run, u) <= 1
        /\ quick.runs > 0 =>
              QuickSentBy(quick.runs, u) =
                  IF u \in quick.selected /\ u \notin RangeOf(quick.queue)
                  THEN 1 ELSE 0

C8_Step ==
    \A u \in Users :
        /\ QuickStarts =>
              (u \in RangeOf(quick'.queue) <=> (u \in QuickDue /\ NoRecentAuto(u)))
        /\ QuickTurnOf(u) =>
              /\ users'[u].quick_message_sent = TRUE
              /\ users'[u].last_quick_message = now
        /\ (users[u].quick_message_sent /\ ~users'[u].quick_message_sent) =>
              /\ Len(messages') = Len(messages) + 1
              /\ messages'[Len(messages')].role = "user"
              /\ messages'[Len(messages')].user_tg_id = u

C9_FlagResetByInbound ==
    (quick.pc = "idle" /\ \A h \in Handlers : hs[h].pc = "idle") =>
        \A u \in Users :
            users[u].quick_message_sent =>
                last_user_message_time(u) < users[u].last_quick_message - QUICK_IDLE

\* C10: neither timer sends the static greeting that stands in for a failed
\* call of the language model.
C10_NoStaticFallback ==
    \A e \in BagToSet(outbox) :
        /\ e.src = "quick" => e.content # QUICK_STATIC
        /\ e.src = "auto" => e.content # AUTO_STATIC

AutoSentBy(run, u) ==
    LET P(e) == e.src = "auto" /\ e.ref = run /\ e.chat_id = ChatOf(u) IN NumSent(P)

\* the daily tick starts in this step
AutoStarts == auto.pc = "idle" /\ auto'.runs = auto.runs + 1

\* the user is taken from the queue of the daily tick in this step
AutoTurnOf(u) ==
    /\ auto'.pc = "send"
    /\ auto'.queue # auto.queue
    /\ auto'.queue[1] = u

\* no daily prompt was marked for the user within the last 24 hours
NoAutoWithinDay(u) ==
    users[u].last_auto_message = NoTime \/ users[u].last_auto_message < now - DAY

C11_State ==
    \A u \in Users :
        /\ \A run \in 1..MaxAutoTicks : AutoSentBy(run, u) <= 1
        /\ auto.runs > 0 =>
              AutoSentBy(auto.runs, u) <=
                  IF u \in auto.selected /\ u \notin RangeOf(auto.queue)
                  THEN 1 ELSE 0

C11_Step ==
    \A u \in Users :
        /\ AutoStarts =>
              (u \in RangeOf(auto'.queue) <=> (u \in AutoDue /\ NoAutoWithinDay(u)))
        /\ AutoTurnOf(u) =>
              /\ NoAutoWithinDay(u)
              /\ users'[u].last_auto_message = now
        /\ AutoSentBy(auto.runs, u)' > AutoSentBy(auto.runs, u) =>
              /\ auto.pc = "send"
              /\ auto.queue[1] = u
              /\ users[u].last_auto_message # NoTime
              /\ users[u].last_auto_message > now - DAY
        /\ (users'[u].last_auto_message # users[u].last_auto_message) => AutoTurnOf(u)

InitBranch ==
    /\ InitBase
    /\ now = 0
    /\ messages = <<>>
    /\ \E r \in {UserRow(NoTime), UserRow(0)} :
           users = [u \in Users |-> IF u = 1 THEN r ELSE NoUserRow]
    /\ katya_free_drinks = [c \in Users |-> NoDrinksRow]
    /\ \E d \in {{}, {DrinkRow(1, REPORT_AMOUNT, 0, 1)}} : user_drinks = d

NextBranch ==
    \/ \E h \in Handlers, text \in MsgTexts, llm \in {"neutral", LLM_FALLBACK} :
           MsgReceive(h, 1, text, llm) /\ UNCHANGED web
    \/ \E h \in Handlers : MsgReply(h) /\ UNCHANGED web
    \/ AdvanceTime(DAY)

SpecBranch == InitBranch /\ [][NextBranch]_vars

\* The webhook endpoint in front of msg_handler, before and after startup.
NextWebhook ==
    \/ Startup
    \/ \E token \in Tokens, body \in Bodies : WebhookRefuse(token, body)
    \/ \E token \in Tokens, body \in Bodies, h \in Handlers, text \in MsgTexts :
           WebhookDispatch(token, body, h, text, "neutral")
    \/ \E h \in Handlers : WebhookReturn(h)

SpecWebhook == InitBranch /\ [][NextWebhook]_vars

\* handle_user_message in normal operation: the store and the adapter answer
\* every call and the model answers without a side-signal; user 1 has no
\* users row, or one without or with a reminder of today.
NextReminder ==
    \/ \E h \in Handlers, text \in Texts :
           Receive(h, 1, FIRST_NAME, text, TRUE, TRUE, TRUE, "male", "neutral")
    \/ \E h \in Handlers : ReplyStats(h, TRUE, TRUE)
    \/ \E h \in Handlers : ReplyReminder(h, TRUE, TRUE, TRUE)
    \/ \E h \in Handlers : ReplyAnswer(h, TRUE, TRUE, TRUE)
    \/ AdvanceTime(DAY)

SpecReminder == Init /\ [][NextReminder]_vars

\* The default branch with every outcome of the model call: a text, an empty
\* completion, an exception (a timeout is one); the store and the adapter
\* answer every call.
LLM_RAISES == "llm_raises"

NextReply ==
    \/ \E h \in Handlers, llm \in {"neutral", LLM_EMPTY, LLM_RAISES} :
           Receive(h, 1, FIRST_NAME, "plain", TRUE, TRUE, TRUE, "male", llm)
    \/ \E h \in Handlers : ReplyReminder(h, TRUE, TRUE, TRUE)
    \/ \E h \in Handlers : ReplyAnswer(h, TRUE, TRUE, TRUE)
    \/ AdvanceTime(DAY)

SpecReply == Init /\ [][NextReply]_vars

\* The quota ledger under the default branch, with the clock stepping to one
\* unit before and to the 24 hours after date_reset; user 1 is known and was
\* reminded; the store and the adapter answer every call.
LedgerStep == IF now = 0 THEN DAY - 1 ELSE 1

InitLedger ==
    /\ InitBase
    /\ user_drinks = {}
    /\ now = 0
    /\ messages = <<>>
    /\ users = [u \in Users |-> IF u = 1 THEN UserRow(0) ELSE NoUserRow]
    /\ \E d \in {NoDrinksRow} \cup
                {DrinksRow(k, 0) : k \in {0, QUOTA_MAX - 1, QUOTA_MAX}} :
           katya_free_drinks = [c \in Users |-> IF c = 1 THEN d ELSE NoDrinksRow]

NextLedger ==
    \/ \E h \in Handlers :
           Receive(h, 1, FIRST_NAME, "plain", TRUE, TRUE, FALSE, "male", "wine")
    \/ \E h \in Handlers : ReplyAnswer(h, TRUE, TRUE, TRUE)
    \/ \E h \in Handlers : SendSticker(h, TRUE, TRUE, TRUE)
    \/ \E h \in Handlers : SendGiftRequest(h, TRUE, TRUE)
    \/ now < DAY /\ AdvanceTime(LedgerStep)

SpecLedger == InitLedger /\ [][NextLedger]_vars

\* Concurrent calls of increment_katya_drinks: two handlers of user 1 whose
\* answers carry a drink side-signal.  The ledger of the chat starts without
\* a record, with a fresh record, or with a record whose 24 hours are over
\* (then a reset is due at the first call, when the read of the quota check
\* before it failed and left the record as it was); the adapter answers, and
\* so does the store for every write.
InitIncrement ==
    /\ InitBase
    /\ user_drinks = {}
    /\ now = DAY
    /\ messages = <<>>
    /\ users = [u \in Users |-> IF u = 1 THEN UserRow(DAY) ELSE NoUserRow]
    /\ \E d \in {NoDrinksRow, DrinksRow(0, DAY), DrinksRow(QUOTA_MAX - 2, 0),
                 DrinksRow(QUOTA_MAX, 0)} :
           katya_free_drinks = [c \in Users |-> IF c = 1 THEN d ELSE NoDrinksRow]

NextIncrement ==
    \/ \E h \in Handlers, llm \in {"wine", "vodka"} :
           Receive(h, 1, FIRST_NAME, "plain", TRUE, TRUE, TRUE, "male", llm)
    \/ \E h \in Handlers, okQuota \in BOOLEAN : ReplyAnswer(h, TRUE, okQuota, TRUE)
    \/ \E h \in Handlers : SendSticker(h, TRUE, TRUE, TRUE)

SpecIncrement == InitIncrement /\ [][NextIncrement]_vars

\* ------------------------------------------------------------------------
\* The branches of handle_user_message
\* ------------------------------------------------------------------------
InStatsBranch(h) == hs[h].pc = "reply_stats"

\* C12: while a message with a statistics keyword is handled, the language
\* model has not been called for it (neither for the reply nor for anything
\* else the handler does with that message), and the reply in hand is the
\* statistics report with no side-signal.
C12_StatsWithoutModel ==
    \A h \in Handlers :
        InStatsBranch(h) =>
            /\ hs[h].calls = {}
            /\ hs[h].answer = STATS_REPLY
            /\ hs[h].cmd = NoCommand

\* the branch of msg_handler a handler is in, "" when it is in none
BranchOf(h) ==
    CASE h.pc = "msg_stats" -> "stats"
      [] h.pc = "msg_warning" -> "warning"
      [] h.pc = "msg_reminder" -> "reminder"
      [] h.pc = "msg_answer" -> "default"
      [] OTHER -> ""

MsgStarts(h) == hs[h].pc = "idle" /\ BranchOf(hs'[h]) # ""

\* the warning is due: today's reports reach the threshold and the user has
\* not been warned today
WarningDue(drinks, tbl, u) ==
    check_daily_limit(drinks, u) /\ should_send_limit_warning(tbl, u)

C13_Step ==
    \A h \in Handlers :
        MsgStarts(h) =>
            LET u == hs'[h].user
                first ==
                    IF IsStatsRequest(hs'[h].text) THEN "stats"
                    ELSE IF WarningDue(user_drinks', users, u) THEN "warning"
                    ELSE IF app_should_remind_about_stats(users', u)
                    THEN "reminder"
                    ELSE "default" IN
            /\ BranchOf(hs'[h]) = first
            /\ "llm_reply" \in hs'[h].calls <=> first = "default"

WarningRowOn(u, date, r) ==
    /\ r.user_tg_id = u
    /\ r.role = "assistant"
    /\ r.content \in {WARNING_LLM, WARNING_STATIC}
    /\ r.created_at \div DAY = date

ReminderRowSince(u, time, r) ==
    /\ r.user_tg_id = u
    /\ r.role = "assistant"
    /\ r.content = REMINDER_MSG
    /\ r.created_at >= time

TakesReminder(h) == hs[h].pc = "idle" /\ hs'[h].pc = "reply_reminder"

C15_Step ==
    \A h \in Handlers :
        /\ TakesReminder(h) =>
              LET u == hs'[h].user IN
              /\ \/ users[u].last_stats_reminder = NoTime
                 \/ now - users[u].last_stats_reminder > DAY
              /\ NumRows(LAMBDA r : ReminderRowSince(u, now - DAY, r)) = 0
        /\ (hs[h].pc = "reply_reminder" /\ hs'[h].pc = "idle") =>
              users'[hs[h].user].last_stats_reminder = now

\* C15: a message takes the reminder branch only when the user was never
\* reminded or was reminded more than 24 hours ago; a reminder that was sent
\* is marked, and no message of the user takes the branch within 24 hours
\* after a reminder was sent to the user.
C15_ReminderOncePerDay == [][C15_Step]_vars

HandledFor(u) ==
    \E i \in DOMAIN messages :
        /\ messages[i].user_tg_id = u
        /\ messages[i].role = "user"
        /\ Done(messages[i].mid)

\* C16: once an inbound message of a user has been handled, the user has a
\* row in the table users, and no step removes a row of that table.
C16_ProfileOnFirstSight ==
    /\ [](\A u \in Users : HandledFor(u) => users[u].present)
    /\ [][\A u \in Users : users[u].present => users'[u].present]_vars

\* C20: of two handlers working on messages of the same user at the same
\* time, at most one is in the reminder branch.
C20_OneReminderOfTwo ==
    \A g, h \in Handlers :
        (g # h /\ hs[g].pc = "reply_reminder" /\ hs[h].pc = "reply_reminder")
            => hs[g].user # hs[h].user

Answered(r) == r.status # 0

\* C17: a request whose path secret is not the bot token is answered 403.
C17_WrongSecretForbidden ==
    \A i \in DOMAIN web.responses :
        LET r == web.responses[i] IN
        r.token # BOT_TOKEN => r.status = HTTP_FORBIDDEN

\* C18: a request with the bot token as path secret is answered 200, or 503
\* when it arrived before the adapter was initialized.
C18_RightSecretOk ==
    \A i \in DOMAIN web.responses :
        LET r == web.responses[i] IN
        (r.token = BOT_TOKEN /\ Answered(r)) =>
            \/ r.status = HTTP_OK
            \/ r.status = HTTP_UNAVAILABLE /\ ~r.tapp

\* the calls of increment_katya_drinks for the chat that have returned: each
\* is followed by the agent turn stored with its sticker command
IncrementsDone(chat) ==
    NumRows(LAMBDA r : r.chat_id = chat /\ r.role = "assistant"
                       /\ r.sticker_sent # NoCommand)

C21_ReplyWhateverModel ==
    /\ \A h \in Handlers :
           hs[h].pc = "reply_answer" => hs[h].answer \in AnswerTexts \cup {LLM_FALLBACK}
    /\ \A mid \in 1..MaxInbound : Done(mid) => TextsFor(mid) = 1

\* the counter of a ledger record after the reset rule: 0 without a record
\* and 0 when at least 24 hours have passed since date_reset
LazyCount(row) ==
    IF ~row.present THEN 0
    ELSE IF now - row.date_reset >= DAY THEN 0
    ELSE row.drinks_count

LazyRow(row) ==
    IF ~row.present \/ now - row.date_reset >= DAY
    THEN [present |-> TRUE, drinks_count |-> 0, date_reset |-> now]
    ELSE row

AsksQuota(h) == hs[h].pc = "reply_answer" /\ hs'[h].pc \in {"sticker", "gift"}

C22_Step ==
    \A h \in Handlers :
        AsksQuota(h) =>
            LET chat == ChatOf(hs[h].user) IN
            /\ hs'[h].pc = "sticker" <=>
                  LazyCount(katya_free_drinks[chat]) < QUOTA_MAX
            /\ katya_free_drinks'[chat] = LazyRow(katya_free_drinks[chat])

\* C22: can_katya_drink_free answers true exactly when the counter, taken as
\* 0 if no record exists or if at least 24 hours have passed since
\* date_reset, is below QUOTA_MAX; it leaves a record with counter 0 and
\* date_reset now in those two cases and the record untouched otherwise.
C22_CheckIsLazyCount == [][C22_Step]_vars

\* the check said no to a full record one step before its reset was due
C22_Witness ==
    /\ now = DAY - 1
    /\ \E h \in Handlers : hs[h].pc = "gift"
    /\ katya_free_drinks[1] = DrinksRow(QUOTA_MAX, 0)

Counts(h) == hs[h].pc = "sticker" /\ hs'[h].pc = "idle"

C23_Step ==
    \A h \in Handlers :
        Counts(h) =>
            LET chat == ChatOf(hs[h].user)
                row == katya_free_drinks[chat] IN
            katya_free_drinks'[chat] =
                IF ~row.present \/ now - row.date_reset >= DAY
                THEN [present |-> TRUE, drinks_count |-> 1, date_reset |-> now]
                ELSE [row EXCEPT !.drinks_count = row.drinks_count + 1]

\* C23: increment_katya_drinks makes the counter 1 and date_reset now when at
\* least 24 hours have passed since date_reset (or no record exists), and
\* otherwise adds 1 and leaves date_reset; after a reset made by the check
\* that precedes it the counter is 1 as well.
C23_IncrementAfterLazyReset == [][C23_Step]_vars

\* a full record of a day ago, reset by the increment itself: the check was
\* made one step before 24 hours, the drink counted at 24 hours
C23_Witness ==
    /\ now = DAY
    /\ katya_free_drinks[1] = DrinksRow(1, DAY)
    /\ \E i \in DOMAIN messages :
           /\ messages[i].role = "assistant"
           /\ messages[i].sticker_sent # NoCommand
           /\ messages[i].created_at = DAY
    /\ \A i \in DOMAIN messages : messages[i].created_at >= DAY - 1

\* app.py gift_callback, drink_info: the side-signal of a catalog item
ItemSticker(item) ==
    CASE item = "gift_wine"   -> "[SEND_DRINK_WINE]"
      [] item = "gift_vodka"  -> "[SEND_DRINK_VODKA]"
      [] item = "gift_whisky" -> "[SEND_DRINK_WHISKY]"
      [] item = "gift_beer"   -> "[SEND_DRINK_BEER]"

\* the stickers the step adds to the calls the adapter accepted
NewStickers ==
    {e \in BagToSet(outbox') :
        e.kind = "sticker" /\ CopiesIn(e, outbox') > CopiesIn(e, outbox)}

C24_Step ==
    \A item \in CatalogItems :
        (pay.pc = "sticker" /\ pay.payload = InvoicePayload(item)) =>
            \A e \in NewStickers : e.content = ItemSticker(item)

\* C24: the sticker dispatched for a confirmed payment whose payload was
\* written by the invoice of a catalog item is the sticker of that item.
C24_StickerOfPurchasedItem == [][C24_Step]_vars

C25_Step ==
    /\ (pay.pc = "idle" /\ pay'.pc = "thanks") => pay'.n = FALLBACK_GRATITUDE_LEN
    /\ pay.pc = "thanks" => pay'.pc \in {"thanks", "sticker"}

\* C25: every confirmed payment is thanked with the same number of messages,
\* and the handler goes on to the sticker whatever became of the sending of
\* a thank-you message.
C25_FixedThanksThenSticker == [][C25_Step]_vars

\* Display names and genders: the messages of user 1 arrive under either of
\* two display names while the model answers the gender question with any of
\* its three answers; the stored gender starts as NULL or as one of the
\* three.  The store and the adapter answer every call.
StoredGenders == {NoGender, "neutral", "male", "female"}

GenderRow(g) ==
    IF g = NoGender THEN [NewUserRow EXCEPT !.last_stats_reminder = 0]
    ELSE [UserRow(0) EXCEPT !.gender = g]

InitGender ==
    /\ InitBase
    /\ user_drinks = {}
    /\ now = 0
    /\ messages = <<>>
    /\ katya_free_drinks = [c \in Users |-> NoDrinksRow]
    /\ \E g \in StoredGenders :
           users = [u \in Users |-> IF u = 1 THEN GenderRow(g) ELSE NoUserRow]

NextGender ==
    \/ \E h \in Handlers, first_name \in Names, detected \in DetectedGenders :
           Receive(h, 1, first_name, "plain", TRUE, TRUE, TRUE, detected,
                   "neutral")
    \/ \E h \in Handlers : ReplyAnswer(h, TRUE, TRUE, TRUE)

SpecGender == InitGender /\ [][NextGender]_vars

C26_Step ==
    \A u \in Users :
        users[u].gender \in {"male", "female"} =>
            users'[u].gender = users[u].gender

LoopFree == \A h \in Handlers : hs[h].pc # "llm_call"

\* message_handlers.py lines 121-182: the handler runs from its start into
\* the call of llm_reply
LlmCall(h, u) ==
    /\ LoopFree
    /\ hs[h].pc = "idle"
    /\ nextMid < MaxInbound
    /\ nextMid' = nextMid + 1
    /\ messages' = save_message(messages, ChatOf(u), u, "user", "plain",
                                NoCommand, nextMid + 1)
    /\ users' = reset_quick_message_flag(users, u)
    /\ hs' = [hs EXCEPT ![h] =
                [Waiting("llm_call", u, nextMid + 1, "", NoCommand)
                 EXCEPT !.calls = {"llm_reply"}]]
    /\ UNCHANGED <<now, katya_free_drinks, outbox, pay, payCount, preCheckout,
                   quick, auto, user_drinks, web>>

\* llm_utils.py lines 69-85, message_handlers.py lines 182-201: the call
\* returns and the handler runs on to await reply_text
LlmReturn(h, llm) ==
    /\ hs[h].pc = "llm_call"
    /\ hs' = [hs EXCEPT ![h].pc = "reply_answer",
                        ![h].answer = llm_reply(llm),
                        ![h].cmd = StickerCommandFor(llm_reply(llm))]
    /\ UNCHANGED <<now, users, messages, katya_free_drinks, outbox, nextMid,
                   pay, payCount, preCheckout, quick, auto, user_drinks, web>>

\* the event loop resumes a handler whose reply_text was answered
Resume(h) == LoopFree /\ ReplyAnswer(h, TRUE, TRUE, TRUE)

InitLoop ==
    /\ InitBase
    /\ user_drinks = {}
    /\ now = 0
    /\ messages = <<>>
    /\ katya_free_drinks = [c \in Users |-> NoDrinksRow]
    /\ users = [u \in Users |-> UserRow(0)]

NextLoop ==
    \/ \E h \in Handlers, u \in Users : LlmCall(h, u)
    \/ \E h \in Handlers, llm \in {"neutral", "toast", LLM_RAISES} :
           LlmReturn(h, llm)
    \/ \E h \in Handlers : Resume(h)

SpecLoop == InitLoop /\ [][NextLoop]_vars

\* C27: while the handler of one user's message is inside the call of the
\* language model, the handler of another user's message that waits for its
\* reply to be sent can be resumed and send it.
C27_OtherUserProgresses ==
    \A h, g \in Handlers :
        (/\ hs[h].pc = "llm_call"
         /\ hs[g].pc = "reply_answer"
         /\ hs[g].user # hs[h].user) => ENABLED Resume(g)

\* Facts: the messages of user 1, who has a row and was reminded today,
\* carry an age, a report, a preference, a stats request or none of them;
\* the stored age starts as NULL or as STORED_AGE.  The store, the model and
\* the adapter answer every call.
STORED_AGE == 30

InitFacts ==
    /\ InitBase
    /\ user_drinks = {}
    /\ now = 0
    /\ messages = <<>>
    /\ katya_free_drinks = [c \in Users |-> NoDrinksRow]
    /\ \E a \in {NoAge, STORED_AGE} :
           users = [u \in Users |-> IF u = 1 THEN [UserRow(0) EXCEPT !.age = a]
                                    ELSE NoUserRow]

NextFacts ==
    \/ \E h \in Handlers, text \in FactTexts \cup Texts :
           Receive(h, 1, FIRST_NAME, text, TRUE, TRUE, TRUE, "male", "neutral")
    \/ \E h \in Handlers : ReplyStats(h, TRUE, TRUE)
    \/ \E h \in Handlers : ReplyAnswer(h, TRUE, TRUE, TRUE)

SpecFacts == InitFacts /\ [][NextFacts]_vars

\* the step takes an inbound message with this text from this user
Takes(u, text) ==
    /\ Len(messages') = Len(messages) + 1
    /\ messages'[Len(messages')].role = "user"
    /\ messages'[Len(messages')].user_tg_id = u
    /\ messages'[Len(messages')].content = text

C28_Step ==
    \A u \in Users :
        (users[u].present /\ Takes(u, "mne 25 let")) =>
            /\ users'[u].age = 25
            /\ users'[u].preferences = users[u].preferences
            /\ user_drinks' = user_drinks

\* C28: the message "mne 25 let" sets the age of the profile to 25, leaves
\* the preferences as they were and inserts no row about a drink.
C28_AgeOnly == [][C28_Step]_vars

\* C29: every row about a drink has an amount from 1 to 50.
C29_AmountInRange ==
    \A r \in user_drinks : r.amount >= 1 /\ r.amount <= 50

\* the age a text mentions ("mne N let"), NoAge when it mentions none
AgeMention(text) ==
    LET ws == Words(text) IN
    IF Len(ws) = 3 /\ ws[1].w = "mne" /\ IsNum(ws[2]) /\ ws[3].w = "let"
    THEN ws[2].n ELSE NoAge

C30_Step ==
    \A u \in Users, text \in FactTexts \cup Texts :
        (users[u].present /\ Takes(u, text)) =>
            users'[u].age = IF AgeMention(text) >= 1 /\ AgeMention(text) <= 120
                            THEN AgeMention(text)
                            ELSE users[u].age

\* C30: a message changes the age of the profile only by mentioning an age
\* from 1 to 120, which then becomes the age of the profile; any other
\* message leaves the age as it was.
C30_AgeFromMentionOnly == [][C30_Step]_vars

\* the preferences a text states
Stated(text) ==
    {k \in {drink_keywords[i] : i \in 1..Len(drink_keywords)} :
        \E i \in 1..Len(Words(text)) : Words(text)[i].w = k}

TagsOf(prefs) == {prefs[i] : i \in 1..Len(prefs)}

C31_Step ==
    \A u \in Users, text \in FactTexts :
        (users[u].present /\ Takes(u, text)) =>
            /\ TagsOf(users'[u].preferences) =
                   TagsOf(users[u].preferences) \cup Stated(text)
            /\ Len(users'[u].preferences) =
                   Cardinality(TagsOf(users'[u].preferences))

\* C31: a message that states preferences leaves the stored tags holding
\* the tags stored before and the stated ones, each of them once.
C31_PreferencesAccumulate == [][C31_Step]_vars

\* ------------------------------------------------------------------------
\* The conversation context of a reply
\* ------------------------------------------------------------------------
CONTEXT_LIMIT == 12
CONTEXT_TAIL == 6

Reverse(s) == [i \in 1..Len(s) |-> s[Len(s) + 1 - i]]

\* s[-n:]
Tail_n(s, n) == IF Len(s) <= n THEN s ELSE SubSeq(s, Len(s) - n + 1, Len(s))

\* database.py get_recent_messages: the rows of the chat, the latest first
\* (rows are inserted in the order of created_at), at most limit of them
get_recent_messages(tbl, chat_id, limit) ==
    LET InChat(r) == r.chat_id = chat_id
        latest == Reverse(SelectSeq(tbl, InChat)) IN
    IF Len(latest) <= limit THEN latest ELSE SubSeq(latest, 1, limit)

\* llm_utils.py lines 42-47: reversed(recent_messages[-6:])
context_messages(recent_messages) ==
    Reverse(Tail_n(recent_messages, CONTEXT_TAIL))

\* the turns stored before the run; row i of a history of k rows was
\* written for an earlier message, numbered i - k - 1
HistoryLens == {0, CONTEXT_TAIL, CONTEXT_TAIL + 1, CONTEXT_LIMIT + 1}

History(k) ==
    [i \in 1..k |->
        [chat_id |-> ChatOf(1), user_tg_id |-> 1,
         role |-> IF i % 2 = 1 THEN "user" ELSE "assistant",
         content |-> "neutral", sticker_sent |-> NoCommand,
         created_at |-> 0, mid |-> i - k - 1]]

InitContext ==
    /\ InitBase
    /\ user_drinks = {}
    /\ now = 0
    /\ \E k \in HistoryLens : messages = History(k)
    /\ katya_free_drinks = [c \in Users |-> NoDrinksRow]
    /\ users = [u \in Users |-> IF u = 1 THEN UserRow(0) ELSE NoUserRow]

NextContext ==
    \/ \E h \in Handlers, llm \in {"neutral", "toast"} :
           Receive(h, 1, FIRST_NAME, "plain", TRUE, TRUE, TRUE, "male", llm)
    \/ \E h \in Handlers : ReplyAnswer(h, TRUE, TRUE, TRUE)
    \/ \E h \in Handlers : SendSticker(h, TRUE, TRUE, TRUE)

SpecContext == InitContext /\ [][NextContext]_vars

\* s is a run of consecutive turns of t that ends with the latest turn of t
IsLatestRun(s, t) ==
    Len(s) <= Len(t) /\ s = SubSeq(t, Len(t) - Len(s) + 1, Len(t))

C32_Step ==
    \A u \in Users :
        Takes(u, "plain") =>
            LET InChat(r) == r.chat_id = ChatOf(u)
                turns == SelectSeq(messages', InChat)
                before == SubSeq(turns, 1, Len(turns) - 1)
                ctx == context_messages(
                           get_recent_messages(messages', ChatOf(u),
                                               CONTEXT_LIMIT)) IN
            /\ Len(ctx) <= CONTEXT_LIMIT
            /\ IsLatestRun(ctx, turns) \/ IsLatestRun(ctx, before)

\* C32: the context handed to the language model for a message is a run of
\* at most 12 consecutive turns of the chat in the order of insertion that
\* ends with the latest turn (the message itself or the turn before it).
C32_ContextIsLatestTurns == [][C32_Step]_vars

\* The quick timer next to the inbound traffic: the store answers, the
\* language model answers or fails, the chat adapter accepts a prompt or
\* raises.
QuickTimerSends ==
    \/ \E order \in Orders(get_users_for_quick_message), llmOk \in BOOLEAN :
           QuickTick(TRUE, order, TRUE, llmOk)
    \/ \E okSend \in BOOLEAN, llmOk \in BOOLEAN : QuickSend(okSend, TRUE, llmOk)

NextQuick ==
    \/ Inbound
    \/ Reply
    \/ QuickTimerSends
    \/ \E d \in TimeSteps : AdvanceTime(d)

SpecQuick == InitTimers /\ [][NextQuick]_vars

QuickPromptsTo(u) ==
    LET P(e) == e.src = "quick" /\ e.chat_id = ChatOf(u) IN NumSent(P)

\* C33: once a run of the quick timer is over, a user who is marked as
\* prompted has been sent a quick prompt.
C33_MarkedOnlyIfSent ==
    quick.pc = "idle" =>
        \A u \in Users :
            users[u].quick_message_sent => QuickPromptsTo(u) >= 1

\* C34: a side-signal command derived from the answer, once the quota let
\* it pass, is a command for which send_sticker_by_command has a sticker.
C34_DerivedCommandHasSticker ==
    \A h \in Handlers : hs[h].pc = "sticker" => HasSticker(hs[h].cmd)

\* the rows the step appends to the log
NewRows == {messages'[i] : i \in (Len(messages) + 1)..Len(messages')}

C35_Step ==
    \A h \in Handlers :
        (hs[h].pc = "sticker" /\ hs'[h].pc = "idle" /\ NewStickers = {}) =>
            /\ katya_free_drinks' = katya_free_drinks
            /\ \A r \in NewRows : r.sticker_sent = NoCommand

\* C35: a reply whose sticker was not dispatched leaves the ledger of free
\* drinks as it was and is logged without a side-signal.
C35_CountOnlyDispatched == [][C35_Step]_vars

\* Emotional and drink side-signals next to the quota ledger: the answers
\* of the model carry a happy, a sad or a wine keyword; the store and the
\* adapter answer every call.
NextMood ==
    \/ \E h \in Handlers, llm \in {"happy", "sad", "wine"} :
           Receive(h, 1, FIRST_NAME, "plain", TRUE, TRUE, TRUE, "male", llm)
    \/ \E h \in Handlers : ReplyAnswer(h, TRUE, TRUE, TRUE)
    \/ \E h \in Handlers : SendSticker(h, TRUE, TRUE, TRUE)
    \/ \E h \in Handlers : SendGiftRequest(h, TRUE, TRUE)

SpecMood == InitQuota /\ [][NextMood]_vars

EmotionCommands == {"[SEND_SAD_STICKER]", "[SEND_HAPPY_STICKER]"}

C36_Step ==
    \A h \in Handlers :
        (hs[h].cmd \in EmotionCommands /\ hs'[h] # hs[h]) =>
            /\ hs'[h].pc # "gift"
            /\ katya_free_drinks'[ChatOf(hs[h].user)].drinks_count <=
                   katya_free_drinks[ChatOf(hs[h].user)].drinks_count

\* C36: the handling of a reply with a happy or sad side-signal never
\* turns to the gift request and never raises the counter of free drinks.
C36_EmotionOutsideQuota == [][C36_Step]_vars

\* The default branch while the table of free drinks cannot be read or
\* written: every call of can_katya_drink_free and increment_katya_drinks
\* raises inside; the message log, the model and the adapter answer.
NextOutage ==
    \/ \E h \in Handlers, llm \in {"neutral", "wine", "whisky", "happy"} :
           Receive(h, 1, FIRST_NAME, "plain", TRUE, TRUE, TRUE, "male", llm)
    \/ \E h \in Handlers : ReplyAnswer(h, TRUE, FALSE, TRUE)
    \/ \E h \in Handlers : SendSticker(h, TRUE, FALSE, TRUE)

SpecOutage == InitQuota /\ [][NextOutage]_vars

C37_Step ==
    \A h \in Handlers :
        /\ hs'[h].pc # "gift"
        /\ katya_free_drinks' = katya_free_drinks
        /\ (hs[h].pc = "sticker" /\ hs'[h].pc = "idle") =>
               /\ NewStickers # {}
               /\ \E r \in NewRows : r.role = "assistant" /\ r.mid = hs[h].mid

\* C37: while the table of free drinks fails, a reply with a side-signal
\* is followed by its sticker and never by a gift request, the table is
\* left as it was, and the agent turn is logged.
C37_QuotaFailsOpen == [][C37_Step]_vars

\* the daily mark of the user is at least one hour old, or there is none
AutoMarkSettled(u) ==
    users[u].last_auto_message = NoTime \/
    now - users[u].last_auto_message >= HOUR

C38_Step ==
    /\ (quick.pc = "idle" /\ quick'.pc = "send") =>
           \A u \in RangeOf(quick'.queue) : AutoMarkSettled(u)
    /\ (quick.pc = "send" /\ quick'.pc = "send" /\ quick'.queue # quick.queue) =>
           AutoMarkSettled(Head(quick'.queue))

\* C38: the quick timer selects no user whose daily mark is less than one
\* hour old, and turns to no such user to send the quick prompt.
C38_NoQuickPromptAfterDaily == [][C38_Step]_vars

\* the step answers or takes up a request whose path secret is not the
\* bot token
WrongSecretRequest ==
    /\ Len(web'.responses) = Len(web.responses) + 1
    /\ web'.responses[Len(web'.responses)].token # BOT_TOKEN

C39_Step ==
    WrongSecretRequest =>
        /\ web'.responses[Len(web'.responses)].mid = 0
        /\ UNCHANGED <<hs, nextMid, outbox, users, messages, katya_free_drinks,
                       user_drinks>>

\* C39: a request with a wrong path secret hands no update to the message
\* handler, sends nothing and leaves every table of the store as it was.
C39_WrongSecretNoProcessing == [][C39_Step]_vars

\* after startup a text update came with a wrong path secret, next to one
\* that came with the bot token and was handed to the message handler
C39_Witness ==
    /\ \E i \in DOMAIN web.responses :
           /\ web.responses[i].token # BOT_TOKEN
           /\ web.responses[i].body = "text_update"
           /\ web.responses[i].tapp
    /\ \E i \in DOMAIN web.responses :
           web.responses[i].token = BOT_TOKEN /\ web.responses[i].mid > 0

====
